---- MODULE Spec2Model ----
(***************************************************************************)
(* A model of the drag-and-drop project manager: the validation function,  *)
(* the observable project store (ProjectState), the list components that   *)
(* subscribe to it (ProjectList) and the input form (ProjectInput).        *)
(*                                                                         *)
(* JavaScript strings are sequences of one-character strings, numbers are  *)
(* records [nan, tenths] (a decimal with one fractional digit, or NaN),    *)
(* objects live in a heap (objs) and arrays hold references into it, so    *)
(* that sharing an array or a record is different from copying it.         *)
(***************************************************************************)
EXTENDS Integers, Sequences, FiniteSets

VARIABLES
  projects,          \* ProjectState.projects: the array of references to Project objects
  objs,              \* the heap of Project objects, objs[r] is the record behind reference r
  listeners,         \* State.listeners: the registered listener functions, in order
  assignedProjects,  \* ProjectList.assignedProjects of the component behind each listener
  titleInputElement,       \* value of the #title field
  descriptionInputElement, \* value of the #description field
  peopleInputElement,      \* value of the #people field
  alerts,            \* number of alert() dialogs shown by the last operation
  delivered,         \* per listener: the arrays it was called with during the last operation
  op,                \* the last operation and its arguments
  validatable,       \* argument of the last direct call of validate
  isValid,           \* result of the last direct call of validate
  listItems,         \* per component: the ProjectItem elements in its <ul>, as project references
  calls,             \* the listener calls of the last operation, in the order they were made
  stack              \* the updateListeners loops in progress, innermost last

vars == <<projects, objs, listeners, assignedProjects, titleInputElement,
          descriptionInputElement, peopleInputElement, alerts, delivered, op,
          validatable, isValid, listItems, calls, stack>>

-----------------------------------------------------------------------------
(* Bounds *)

MaxProjects == 2
MaxListeners == 2

-----------------------------------------------------------------------------
(* JavaScript values *)

Str(s) == [type |-> "string", str |-> s]
Num(t) == [type |-> "number", nan |-> FALSE, tenths |-> t]
NaN == [type |-> "number", nan |-> TRUE, tenths |-> 0]

IsWhiteSpace(c) == c = " "
Digits == <<"0", "1", "2", "3", "4", "5", "6", "7", "8", "9">>
IsDigit(c) == \E i \in 1..10 : Digits[i] = c
DigitValue(c) == (CHOOSE i \in 1..10 : Digits[i] = c) - 1

RECURSIVE TrimStart(_)
TrimStart(s) ==
  IF s # <<>> /\ IsWhiteSpace(Head(s)) THEN TrimStart(Tail(s)) ELSE s

RECURSIVE TrimEnd(_)
TrimEnd(s) ==
  IF s # <<>> /\ IsWhiteSpace(s[Len(s)]) THEN TrimEnd(SubSeq(s, 1, Len(s) - 1)) ELSE s

\* String.prototype.trim
Trim(s) == TrimEnd(TrimStart(s))

\* the decimal digits of a natural number
RECURSIVE NatToString(_)
NatToString(n) ==
  IF n < 10 THEN <<Digits[n + 1]>> ELSE NatToString(n \div 10) \o <<Digits[(n % 10) + 1]>>

\* Number.prototype.toString
NumberToString(n) ==
  IF n.nan THEN <<"N", "a", "N">>
  ELSE LET a == IF n.tenths < 0 THEN -n.tenths ELSE n.tenths
           sign == IF n.tenths < 0 THEN <<"-">> ELSE <<>>
           frac == IF a % 10 = 0 THEN <<>> ELSE <<".", Digits[(a % 10) + 1]>>
       IN sign \o NatToString(a \div 10) \o frac

\* value.toString() of a string | number
toString(v) == IF v.type = "string" THEN v.str ELSE NumberToString(v)

\* the value of a run of decimal digits
RECURSIVE DigitsValue(_)
DigitsValue(s) ==
  IF s = <<>> THEN 0 ELSE 10 * DigitsValue(SubSeq(s, 1, Len(s) - 1)) + DigitValue(s[Len(s)])

AllDigits(s) == \A i \in 1..Len(s) : IsDigit(s[i])

\* an unsigned decimal literal: digits, digits. , digits.d , .d  (one fractional digit)
UnsignedToNumber(s) ==
  LET dots == {i \in 1..Len(s) : s[i] = "."}
  IN IF s = <<>> THEN NaN
     ELSE IF dots = {} THEN (IF AllDigits(s) THEN Num(10 * DigitsValue(s)) ELSE NaN)
     ELSE IF Cardinality(dots) > 1 THEN NaN
     ELSE LET d == CHOOSE i \in dots : TRUE
              ip == SubSeq(s, 1, d - 1)
              fp == SubSeq(s, d + 1, Len(s))
          IN IF ~AllDigits(ip) \/ ~AllDigits(fp) \/ (ip = <<>> /\ fp = <<>>) \/ Len(fp) > 1
               THEN NaN
               ELSE Num(10 * DigitsValue(ip) + DigitsValue(fp))

\* unary plus on a string (ToNumber): white space is trimmed, "" is 0, a malformed
\* literal is NaN
ToNumber(s) ==
  LET t == Trim(s)
  IN IF t = <<>> THEN Num(0)
     ELSE IF Head(t) = "-"
       THEN LET u == UnsignedToNumber(Tail(t))
            IN IF u.nan THEN NaN ELSE Num(-u.tenths)
     ELSE IF Head(t) = "+" THEN UnsignedToNumber(Tail(t))
     ELSE UnsignedToNumber(t)

\* a >= b and a <= b on numbers: every comparison with NaN is false
NumGe(a, b) == ~a.nan /\ ~b.nan /\ a.tenths >= b.tenths
NumLe(a, b) == ~a.nan /\ ~b.nan /\ a.tenths <= b.tenths

-----------------------------------------------------------------------------
(* Validation *)

\* an optional property of a Validatable is present and not null
Has(v, f) == f \in DOMAIN v

\* validate without the typeof tests of the length constraints: the length of a
\* number is undefined, and undefined >= n and undefined <= n are false
validate_NoTypeof(validatableInput) ==
  LET v == validatableInput
      v1 == IF Has(v, "required") /\ v.required
              THEN Len(Trim(toString(v.value))) # 0 ELSE TRUE
      v2 == IF Has(v, "minLength")
              THEN v1 /\ v.value.type = "string" /\ Len(v.value.str) >= v.minLength ELSE v1
      v3 == IF Has(v, "maxLength")
              THEN v2 /\ v.value.type = "string" /\ Len(v.value.str) <= v.maxLength ELSE v2
      v4 == IF Has(v, "min") /\ v.value.type = "number"
              THEN v3 /\ NumGe(v.value, Num(10 * v.min)) ELSE v3
      v5 == IF Has(v, "max") /\ v.value.type = "number"
              THEN v4 /\ NumLe(v.value, Num(10 * v.max)) ELSE v4
  IN v5

validate(validatableInput) ==
  LET v == validatableInput
      v0 == TRUE
      v1 == IF Has(v, "required") /\ v.required
              THEN v0 /\ Len(Trim(toString(v.value))) # 0 ELSE v0
      v2 == IF Has(v, "minLength") /\ v.value.type = "string"
              THEN v1 /\ Len(v.value.str) >= v.minLength ELSE v1
      v3 == IF Has(v, "maxLength") /\ v.value.type = "string"
              THEN v2 /\ Len(v.value.str) <= v.maxLength ELSE v2
      v4 == IF Has(v, "min") /\ v.value.type = "number"
              THEN v3 /\ NumGe(v.value, Num(10 * v.min)) ELSE v3
      v5 == IF Has(v, "max") /\ v.value.type = "number"
              THEN v4 /\ NumLe(v.value, Num(10 * v.max)) ELSE v4
  IN v5

-----------------------------------------------------------------------------
(* Projects and the heap *)

Active == "Active"
Finished == "Finished"
ProjectStatus == {Active, Finished}

Project(id, title, description, people, status) ==
  [id |-> id, title |-> title, description |-> description, people |-> people,
   status |-> status]

\* the results Math.random().toString() can take when a project is created
Ids == {"0.1", "0.2"}

\* a Project object that a subscriber owns and the store never created
ForeignRef == 0
ForeignProject == Project("foreign", <<"x">>, <<"x">>, Num(10), Active)

\* the object behind a reference
Deref(heap, r) == IF r = ForeignRef THEN ForeignProject ELSE heap[r]

\* the index of this.projects among the arrays alive during an operation
StoreArray == 1

-----------------------------------------------------------------------------
(* Listeners *)

\* the listener ProjectList.configure registers, by the type of the list
ListKinds == {"active", "finished"}
\* listeners that change the array they are called with
ArrayKinds == {"push", "pop", "reverse", "replace"}
\* listeners that write to the records they find in the array
RecordKinds == {"writeStatus", "writeId"}

RECURSIVE Reverse(_)
Reverse(s) == IF s = <<>> THEN <<>> ELSE Append(Reverse(Tail(s)), Head(s))

OtherStatus(s) == IF s = Active THEN Finished ELSE Active
OtherId(id) == IF id = "0.1" THEN "0.2" ELSE "0.1"

\* prj.status === ProjectStatus.Active for the active list, Finished otherwise
Relevant(type, prj) ==
  IF type = "active" THEN prj.status = Active ELSE prj.status = Finished

\* document.getElementById(`${type}-projects-list`): the <ul> of the first list of
\* the type in the document; lists are attached to #app in the order they are made
getElementById(type) ==
  CHOOSE i \in 1..Len(listeners) : listeners[i] = type /\ \A j \in 1..(i - 1) : listeners[j] # type

\* renderProjects without listELement.innerHTML = "": items are added to those there
renderProjects_NoClear(st, i) ==
  [st EXCEPT !.items[getElementById(listeners[i])] = @ \o st.assigned[i]]

\* renderProjects of the component behind listener i: the <ul> found by id is
\* emptied, then each new ProjectItem is appended to the <ul> found by the same id
renderProjects(st, i) ==
  [st EXCEPT !.items[getElementById(listeners[i])] = st.assigned[i]]

\* the listener with the filter left out: this.assignedProjects = projects
ListListener_NoFilter(st, i, a) ==
  renderProjects([st EXCEPT !.assigned[i] = st.arrays[a]], i)

\* the body of the listener of ProjectList.configure, for the component behind
\* listener i called with array a
ListListener(st, i, a) ==
  LET type == listeners[i]
      relevantProjects == SelectSeq(st.arrays[a], LAMBDA r : Relevant(type, Deref(st.objs, r)))
  IN renderProjects([st EXCEPT !.assigned[i] = relevantProjects], i)

\* a listener that changes the array it is called with
ArrayListener(st, i, a) ==
  LET items == st.arrays[a]
      kind == listeners[i]
      after == CASE kind = "push" -> Append(items, ForeignRef)
                 [] kind = "pop" -> IF items = <<>> THEN items ELSE SubSeq(items, 1, Len(items) - 1)
                 [] kind = "reverse" -> Reverse(items)
                 [] kind = "replace" -> IF items = <<>> THEN <<ForeignRef>>
                                        ELSE [items EXCEPT ![1] = ForeignRef]
  IN [st EXCEPT !.arrays[a] = after]

\* a listener that writes to the first record of the array it is called with
RecordListener(st, i, a) ==
  LET items == st.arrays[a]
      kind == listeners[i]
  IN IF items = <<>> \/ items[1] = ForeignRef THEN st
     ELSE IF kind = "writeStatus"
       THEN [st EXCEPT !.objs[items[1]].status = OtherStatus(@)]
       ELSE [st EXCEPT !.objs[items[1]].id = OtherId(@)]

\* listenerFunction(a): the call of listener i with array a
CallListener(st, i, a) ==
  LET st1 == [st EXCEPT !.delivered[i] = Append(@, st.arrays[a]),
                        !.calls = Append(@, [listener |-> i, items |-> st.arrays[a],
                                             objs |-> st.objs])]
  IN IF listeners[i] \in ListKinds THEN ListListener(st1, i, a)
     ELSE IF listeners[i] \in ArrayKinds THEN ArrayListener(st1, i, a)
     ELSE RecordListener(st1, i, a)

-----------------------------------------------------------------------------
(* The store *)

\* this.projects handed out itself, without slice()
Slice_Shared(arrays, a) == [arrays |-> arrays, ref |-> a]

\* Array.prototype.slice(): a new array with the elements of array a
Slice(arrays, a) == [arrays |-> Append(arrays, arrays[a]), ref |-> Len(arrays) + 1]

\* for (const listenerFunction of this.listeners) listenerFunction(this.projects.slice())
RECURSIVE NotifyFrom(_, _)
NotifyFrom(st, i) ==
  IF i > Len(listeners) THEN st
  ELSE LET copy == Slice(st.arrays, StoreArray)
       IN NotifyFrom(CallListener([st EXCEPT !.arrays = copy.arrays], i, copy.ref), i + 1)

\* updateListeners that returns after the first listener
updateListeners_FirstOnly(st) ==
  IF Len(listeners) = 0 THEN st
  ELSE LET copy == Slice(st.arrays, StoreArray)
       IN CallListener([st EXCEPT !.arrays = copy.arrays], 1, copy.ref)

updateListeners(st) == NotifyFrom(st, 1)

\* the store and its subscribers as an operation finds them
Current ==
  [arrays |-> <<projects>>, objs |-> objs, assigned |-> assignedProjects,
   delivered |-> [i \in 1..Len(listeners) |-> <<>>], items |-> listItems, calls |-> <<>>]

\* addProject with unshift for push: the new project goes to the front
addProject_Unshift(st, id, title, description, numOfPeople) ==
  LET newProject == Project(id, title, description, numOfPeople, Active)
      ref == Len(st.objs) + 1
  IN NotifyFrom([st EXCEPT !.objs = Append(@, newProject),
                           !.arrays[StoreArray] = <<ref>> \o @], 1)

\* addProject that returns without this.updateListeners()
addProject_NoNotify(st, id, title, description, numOfPeople) ==
  LET newProject == Project(id, title, description, numOfPeople, Active)
      ref == Len(st.objs) + 1
  IN [st EXCEPT !.objs = Append(@, newProject), !.arrays[StoreArray] = Append(@, ref)]

\* addProject that calls this.updateListeners() before this.projects.push(newProject)
addProject_NotifyFirst(st, id, title, description, numOfPeople) ==
  LET newProject == Project(id, title, description, numOfPeople, Active)
      st1 == updateListeners(st)
      ref == Len(st1.objs) + 1
  IN [st1 EXCEPT !.objs = Append(@, newProject), !.arrays[StoreArray] = Append(@, ref)]

\* const newProject = new Project(...); this.projects.push(newProject)
PushProject(st, id, title, description, numOfPeople) ==
  LET newProject == Project(id, title, description, numOfPeople, Active)
      ref == Len(st.objs) + 1
  IN [st EXCEPT !.objs = Append(@, newProject), !.arrays[StoreArray] = Append(@, ref)]

addProject(st, id, title, description, numOfPeople) ==
  updateListeners(PushProject(st, id, title, description, numOfPeople))

\* find that returns the last match instead of the first
Find_Last(st, projectId) ==
  LET arr == st.arrays[StoreArray]
      hits == {k \in 1..Len(arr) : Deref(st.objs, arr[k]).id = projectId}
  IN IF hits = {} THEN {} ELSE {arr[CHOOSE k \in hits : \A j \in hits : k >= j]}

\* this.projects.find((proj) => proj.id === projectId): the first match, or none
Find(st, projectId) ==
  LET arr == st.arrays[StoreArray]
      hits == {k \in 1..Len(arr) : Deref(st.objs, arr[k]).id = projectId}
  IN IF hits = {} THEN {} ELSE {arr[CHOOSE k \in hits : \A j \in hits : k <= j]}

\* moveProject that sets the status of every project with the id (filter for find)
moveProject_All(st, projectId, newStatus) ==
  LET arr == st.arrays[StoreArray]
      hits == {arr[k] : k \in {j \in 1..Len(arr) : Deref(st.objs, arr[j]).id = projectId}}
  IN updateListeners([st EXCEPT !.objs = [r \in DOMAIN @ |->
                        IF r \in hits THEN [@[r] EXCEPT !.status = newStatus] ELSE @[r]]])

\* moveProject that only finishes projects, as dragging does in the lists
moveProject_OneWay(st, projectId, newStatus) ==
  LET project == Find(st, projectId)
  IN IF project # {} /\ newStatus = Finished
       THEN updateListeners([st EXCEPT !.objs[CHOOSE r \in project : TRUE].status = newStatus])
       ELSE updateListeners(st)

\* moveProject that returns early, without notifying, when it changes nothing
moveProject_QuietNoOp(st, projectId, newStatus) ==
  LET project == Find(st, projectId)
  IN IF project # {} /\ \E r \in project : Deref(st.objs, r).status # newStatus
       THEN updateListeners([st EXCEPT !.objs[CHOOSE r \in project : TRUE].status = newStatus])
       ELSE st

\* if (project && project.status !== newStatus) project.status = newStatus
SetStatus(st, projectId, newStatus) ==
  LET project == Find(st, projectId)
  IN IF project # {} /\ \E r \in project : Deref(st.objs, r).status # newStatus
       THEN [st EXCEPT !.objs[CHOOSE r \in project : TRUE].status = newStatus]
       ELSE st

moveProject(st, projectId, newStatus) == updateListeners(SetStatus(st, projectId, newStatus))

\* the state an operation leaves
Commit(st) ==
  /\ projects' = st.arrays[StoreArray]
  /\ objs' = st.objs
  /\ assignedProjects' = st.assigned
  /\ delivered' = st.delivered
  /\ listItems' = st.items
  /\ calls' = st.calls

NoCalls == [i \in 1..Len(listeners) |-> <<>>]

-----------------------------------------------------------------------------
(* The form *)

\* gatherUserInput that alerts only when all three validations fail (&& for ||)
gatherUserInput_AllFail(t, d, p) ==
  IF /\ ~validate([value |-> Str(t), required |-> TRUE])
     /\ ~validate([value |-> Str(d), required |-> TRUE, minLength |-> 5])
     /\ ~validate([value |-> ToNumber(p), required |-> TRUE, min |-> 1, max |-> 5])
    THEN [isArray |-> FALSE, alert |-> 1]
    ELSE [isArray |-> TRUE, alert |-> 0, tuple |-> <<t, d, ToNumber(p)>>]

\* gatherUserInput with t, d, p the values of the three fields: the tuple, or
\* nothing after an alert
gatherUserInput(t, d, p) ==
  LET enteredTitle == t
      enteredDescription == d
      enteredPeople == p
      titleValidatable == [value |-> Str(enteredTitle), required |-> TRUE]
      descriptionValidatable ==
        [value |-> Str(enteredDescription), required |-> TRUE, minLength |-> 5]
      peopleValidatable ==
        [value |-> ToNumber(enteredPeople), required |-> TRUE, min |-> 1, max |-> 5]
  IN IF ~validate(titleValidatable) \/ ~validate(descriptionValidatable)
        \/ ~validate(peopleValidatable)
       THEN [isArray |-> FALSE, alert |-> 1]
       ELSE [isArray |-> TRUE, alert |-> 0,
             tuple |-> <<enteredTitle, enteredDescription, ToNumber(enteredPeople)>>]

\* what the user can type into the three fields
Titles == {<<>>, <<" ", " ">>, <<" ", "b">>}
Descriptions ==
  {<<>>, <<" ", " ", " ", " ", " ">>, <<"a", "b", "c">>, <<"a", "b", "c", "d">>,
   <<"a", "b", "c", "d", "e">>}
Peoples ==
  {<<>>, <<" ">>, <<"x">>, <<"0">>, <<"1">>, <<" ", "5">>, <<"6">>, <<"2", ".", "5">>,
   <<"-", "1">>}
FormInputs == Titles \X Descriptions \X Peoples

\* the inputs typed while the store and its listeners are explored
ValidInput == <<<<"a">>, <<"a", "b", "c", "d", "e">>, <<"1">>>>
CoreInputs ==
  {ValidInput,
   <<<<" ", "b">>, <<"a", "b", "c", "d", " ">>, <<"5">>>>,
   <<<<"a">>, <<"a", "b", "c">>, <<"6">>>>}

\* the arguments validate is called with directly
Opt(f, o) == IF o = {} THEN {} ELSE {f}
OptVal(o) == CHOOSE x \in o : TRUE
Validatable(value, required, minLength, maxLength, min, max) ==
  [f \in {"value"} \cup Opt("required", required) \cup Opt("minLength", minLength)
         \cup Opt("maxLength", maxLength) \cup Opt("min", min) \cup Opt("max", max) |->
     CASE f = "value" -> value
       [] f = "required" -> OptVal(required)
       [] f = "minLength" -> OptVal(minLength)
       [] f = "maxLength" -> OptVal(maxLength)
       [] f = "min" -> OptVal(min)
       [] f = "max" -> OptVal(max)]
Values ==
  {Str(<<>>), Str(<<" ">>), Str(<<"a">>), Str(<<" ", "a">>), Str(<<"a", "b", "c">>),
   NaN, Num(0), Num(9), Num(10), Num(25), Num(50), Num(51)}
Validatables ==
  {Validatable(v, r, minL, maxL, mn, mx) :
     v \in Values, r \in {{}, {TRUE}, {FALSE}}, minL \in {{}, {0}, {2}},
     maxL \in {{}, {1}}, mn \in {{}, {1}}, mx \in {{}, {5}}}

-----------------------------------------------------------------------------
(* Operations *)

Init ==
  /\ projects = <<>>
  /\ objs = <<>>
  /\ listeners = <<>>
  /\ assignedProjects = <<>>
  /\ titleInputElement = <<>>
  /\ descriptionInputElement = <<>>
  /\ peopleInputElement = <<>>
  /\ alerts = 0
  /\ delivered = <<>>
  /\ op = [name |-> "init"]
  /\ validatable = [value |-> Str(<<>>)]
  /\ isValid = TRUE
  /\ listItems = <<>>
  /\ calls = <<>>
  /\ stack = <<>>

\* addListener that replays the current collection to the listener it registers
AddListener_Replay(kind) ==
  /\ Len(listeners) < MaxListeners
  /\ listeners' = Append(listeners, kind)
  /\ assignedProjects' =
       Append(assignedProjects,
              IF kind \in ListKinds
                THEN SelectSeq(projects, LAMBDA r : Relevant(kind, Deref(objs, r)))
                ELSE <<>>)
  /\ delivered' = [i \in 1..(Len(listeners) + 1) |->
                     IF i = Len(listeners) + 1 THEN <<projects>> ELSE <<>>]
  /\ alerts' = 0
  /\ op' = [name |-> "addListener", kind |-> kind]
  /\ listItems' = Append(listItems, <<>>)
  /\ calls' = <<>>
  /\ UNCHANGED <<projects, objs, titleInputElement, descriptionInputElement,
                 peopleInputElement, validatable, isValid, stack>>

\* new ProjectList(type), which registers its listener, or a subscriber of another kind
AddListener(kind) ==
  /\ Len(listeners) < MaxListeners
  /\ listeners' = Append(listeners, kind)
  /\ assignedProjects' = Append(assignedProjects, <<>>)
  /\ delivered' = [i \in 1..(Len(listeners) + 1) |-> <<>>]
  /\ alerts' = 0
  /\ op' = [name |-> "addListener", kind |-> kind]
  /\ listItems' = Append(listItems, <<>>)
  /\ calls' = <<>>
  /\ UNCHANGED <<projects, objs, titleInputElement, descriptionInputElement,
                 peopleInputElement, validatable, isValid, stack>>

\* submitHandler that clears the fields whether or not a project was added
SubmitHandler_AlwaysClear(t, d, p, id) ==
  LET userInput == gatherUserInput(t, d, p)
  IN /\ alerts' = userInput.alert
     /\ op' = [name |-> "submit", isArray |-> userInput.isArray, entered |-> <<t, d, p>>]
     /\ titleInputElement' = <<>>
     /\ descriptionInputElement' = <<>>
     /\ peopleInputElement' = <<>>
     /\ IF userInput.isArray
          THEN /\ Len(projects) < MaxProjects
               /\ Commit(addProject(Current, id, userInput.tuple[1], userInput.tuple[2],
                                    userInput.tuple[3]))
          ELSE /\ id = CHOOSE x \in Ids : TRUE
               /\ delivered' = NoCalls
               /\ calls' = <<>>
               /\ UNCHANGED <<projects, objs, assignedProjects, listItems>>
     /\ UNCHANGED <<listeners, validatable, isValid, stack>>

\* submitHandler on a form in which the user has entered t, d and p, with id the
\* result of Math.random().toString()
SubmitHandler(t, d, p, id) ==
  LET userInput == gatherUserInput(t, d, p)
  IN /\ alerts' = userInput.alert
     /\ op' = [name |-> "submit", isArray |-> userInput.isArray, entered |-> <<t, d, p>>]
     /\ IF userInput.isArray
          THEN /\ Len(projects) < MaxProjects
               /\ Commit(addProject(Current, id, userInput.tuple[1], userInput.tuple[2],
                                    userInput.tuple[3]))
               \* clearInputs
               /\ titleInputElement' = <<>>
               /\ descriptionInputElement' = <<>>
               /\ peopleInputElement' = <<>>
          ELSE /\ id = CHOOSE x \in Ids : TRUE
               /\ delivered' = NoCalls
               /\ calls' = <<>>
               /\ titleInputElement' = t
               /\ descriptionInputElement' = d
               /\ peopleInputElement' = p
               /\ UNCHANGED <<projects, objs, assignedProjects, listItems>>
     /\ UNCHANGED <<listeners, validatable, isValid, stack>>

\* the identifiers moveProject is called with: those of projects, and one of no project
MoveIds == Ids \cup {"0.9"}

MoveProject(projectId, newStatus) ==
  /\ Commit(moveProject(Current, projectId, newStatus))
  /\ alerts' = 0
  /\ op' = [name |-> "moveProject", projectId |-> projectId, newStatus |-> newStatus,
            changed |-> moveProject(Current, projectId, newStatus).objs # objs]
  /\ UNCHANGED <<listeners, titleInputElement, descriptionInputElement,
                 peopleInputElement, validatable, isValid, stack>>

\* a direct call of validate
Validate(v) ==
  /\ validatable' = v
  /\ isValid' = validate(v)
  /\ op' = [name |-> "validate"]
  /\ UNCHANGED <<projects, objs, listeners, assignedProjects, titleInputElement,
                 descriptionInputElement, peopleInputElement, alerts, delivered,
                 listItems, calls, stack>>

-----------------------------------------------------------------------------
(* The store with subscribers that call it back.  A listener that calls         *)
(* addProject or moveProject re-enters updateListeners while the loop that      *)
(* called it is suspended, so the loops are modelled one listener call at a     *)
(* time, with the suspended loops on a stack.                                   *)

\* the number of nested updateListeners loops the call stack of the engine holds
MaxDepth == 3

\* subscribers that call addProject, or moveProject, each time they are notified
ReentrantKinds == {"addOnNotify", "moveOnNotify"}

\* updateListeners behind a guard: a call made while a loop runs returns at once,
\* and so does the listener that made it
StartRound_Guarded(stk) ==
  IF stk = <<>> THEN <<[next |-> 1]>> ELSE [stk EXCEPT ![Len(stk)].next = @ + 1]

\* updateListeners is entered: its for-of loop starts at the first listener, on top
\* of the loops that are suspended in a listener call
StartRound(stk) == Append(stk, [next |-> 1])

\* the mutation a reentrant subscriber of the kind makes when called with items
ReentrantMutation(kind, st, items) ==
  IF kind = "addOnNotify"
    THEN PushProject(st, "0.2", <<"n">>, <<"n", "e", "s", "t", "s">>, Num(10))
    ELSE IF items = <<>> THEN SetStatus(st, "0.1", Finished)
         ELSE SetStatus(st, Deref(st.objs, items[1]).id,
                        OtherStatus(Deref(st.objs, items[1]).status))

\* addProject is called from outside a notification, up to its call of updateListeners
BeginAddProject(id) ==
  /\ stack = <<>>
  /\ Len(projects) < MaxProjects
  /\ LET st == PushProject(Current, id, <<"a">>, <<"a", "b", "c", "d", "e">>, Num(10))
     IN projects' = st.arrays[StoreArray] /\ objs' = st.objs
  /\ stack' = StartRound(stack)
  /\ op' = [name |-> "beginAdd"]
  /\ UNCHANGED <<listeners, assignedProjects, titleInputElement, descriptionInputElement,
                 peopleInputElement, alerts, delivered, validatable, isValid, listItems,
                 calls>>

\* moveProject is called from outside a notification, up to its call of updateListeners
BeginMoveProject(projectId, newStatus) ==
  /\ stack = <<>>
  /\ Len(projects) <= MaxProjects
  /\ LET st == SetStatus(Current, projectId, newStatus)
     IN projects' = st.arrays[StoreArray] /\ objs' = st.objs
  /\ stack' = StartRound(stack)
  /\ op' = [name |-> "beginMove"]
  /\ UNCHANGED <<listeners, assignedProjects, titleInputElement, descriptionInputElement,
                 peopleInputElement, alerts, delivered, validatable, isValid, listItems,
                 calls>>

\* the innermost loop calls its next listener, a list, which returns
NotifyList ==
  /\ stack # <<>>
  /\ LET i == stack[Len(stack)].next
     IN /\ i <= Len(listeners)
        /\ listeners[i] \in ListKinds
        /\ LET copy == Slice(<<projects>>, StoreArray)
           IN Commit(CallListener([Current EXCEPT !.arrays = copy.arrays], i, copy.ref))
        /\ stack' = [stack EXCEPT ![Len(stack)].next = i + 1]
        /\ op' = [name |-> "notify", listener |-> i]
  /\ UNCHANGED <<listeners, titleInputElement, descriptionInputElement,
                 peopleInputElement, alerts, validatable, isValid>>

\* the innermost loop calls its next listener, which calls the store: the store is
\* changed and updateListeners is entered again while the calling loop waits
NotifyReentrant ==
  /\ stack # <<>>
  /\ Len(stack) < MaxDepth
  /\ LET i == stack[Len(stack)].next
     IN /\ i <= Len(listeners)
        /\ listeners[i] \in ReentrantKinds
        /\ LET st == ReentrantMutation(listeners[i], Current, projects)
           IN projects' = st.arrays[StoreArray] /\ objs' = st.objs
        /\ stack' = StartRound(stack)
        /\ op' = [name |-> "notify", listener |-> i]
  /\ UNCHANGED <<listeners, assignedProjects, titleInputElement, descriptionInputElement,
                 peopleInputElement, alerts, delivered, validatable, isValid, listItems,
                 calls>>

\* the call stack is full when the next listener calls the store: a RangeError is
\* thrown, in the call of addProject or moveProject (before the store is changed) or
\* in its call of updateListeners (after); no frame catches it, so every loop in
\* progress is abandoned
StackOverflow ==
  /\ Len(stack) = MaxDepth
  /\ LET i == stack[Len(stack)].next
     IN /\ i <= Len(listeners)
        /\ listeners[i] \in ReentrantKinds
        /\ \/ UNCHANGED <<projects, objs>>
           \/ LET st == ReentrantMutation(listeners[i], Current, projects)
              IN projects' = st.arrays[StoreArray] /\ objs' = st.objs
        /\ op' = [name |-> "RangeError", listener |-> i]
  /\ stack' = <<>>
  /\ UNCHANGED <<listeners, assignedProjects, titleInputElement, descriptionInputElement,
                 peopleInputElement, alerts, delivered, validatable, isValid, listItems,
                 calls>>

\* the innermost loop has called every listener: updateListeners returns, and with it
\* the mutation and, if a listener made the call, that listener, so the loop below
\* moves on to its next listener
ReturnFromRound ==
  /\ stack # <<>>
  /\ stack[Len(stack)].next > Len(listeners)
  /\ stack' = LET rest == SubSeq(stack, 1, Len(stack) - 1)
              IN IF rest = <<>> THEN rest ELSE [rest EXCEPT ![Len(rest)].next = @ + 1]
  /\ op' = [name |-> "return"]
  /\ UNCHANGED <<projects, objs, listeners, assignedProjects, titleInputElement,
                 descriptionInputElement, peopleInputElement, alerts, delivered,
                 validatable, isValid, listItems, calls>>

-----------------------------------------------------------------------------
(* Specifications *)

SubmitCore == \E in \in CoreInputs, id \in Ids : SubmitHandler(in[1], in[2], in[3], id)
Move == \E projectId \in MoveIds, newStatus \in ProjectStatus : MoveProject(projectId, newStatus)

\* the application: the store, the form and the list components
Next ==
  \/ \E kind \in ListKinds : AddListener(kind)
  \/ SubmitCore
  \/ Move

Spec == Init /\ [][Next]_vars

SubmitOne == \E id \in Ids : SubmitHandler(ValidInput[1], ValidInput[2], ValidInput[3], id)

\* the store with subscribers that change the array they are called with
NextSubscribers ==
  \/ \E kind \in ListKinds \cup ArrayKinds : AddListener(kind)
  \/ SubmitOne
  \/ Move

SpecSubscribers == Init /\ [][NextSubscribers]_vars

\* the store with subscribers that also write to the records they are handed
NextRecords ==
  \/ \E kind \in ListKinds \cup ArrayKinds \cup RecordKinds : AddListener(kind)
  \/ SubmitOne
  \/ Move

SpecRecords == Init /\ [][NextRecords]_vars

\* the application as app.ts starts it: the form, the active list, the finished list
InitApp ==
  /\ projects = <<>>
  /\ objs = <<>>
  /\ listeners = <<"active", "finished">>
  /\ assignedProjects = <<<<>>, <<>>>>
  /\ titleInputElement = <<>>
  /\ descriptionInputElement = <<>>
  /\ peopleInputElement = <<>>
  /\ alerts = 0
  /\ delivered = <<<<>>, <<>>>>
  /\ op = [name |-> "init"]
  /\ validatable = [value |-> Str(<<>>)]
  /\ isValid = TRUE
  /\ listItems = <<<<>>, <<>>>>
  /\ calls = <<>>
  /\ stack = <<>>

NextForm ==
  \E in \in FormInputs : SubmitHandler(in[1], in[2], in[3], CHOOSE x \in Ids : TRUE)

SpecForm == InitApp /\ [][NextForm]_vars

\* the application as it starts: the active and the finished list are subscribed,
\* then the user submits the form and projects are moved
NextApp == SubmitCore \/ Move

SpecApp == InitApp /\ [][NextApp]_vars

\* the store with lists and subscribers that call it back, one listener call a step
NextReentrant ==
  \/ \E kind \in ListKinds \cup ReentrantKinds : stack = <<>> /\ AddListener(kind)
  \/ \E id \in Ids : BeginAddProject(id)
  \/ \E projectId \in Ids, newStatus \in ProjectStatus : BeginMoveProject(projectId, newStatus)
  \/ NotifyList
  \/ NotifyReentrant
  \/ StackOverflow
  \/ ReturnFromRound

SpecReentrant == Init /\ [][NextReentrant]_vars

\* validate on its own
NextValidate == \E v \in Validatables : Validate(v)

SpecValidate == Init /\ [][NextValidate]_vars

-----------------------------------------------------------------------------
(* Claims *)

Range(s) == {s[i] : i \in 1..Len(s)}

\* the step is an addProject call (a submission that passed validation)
IsAdd(o) == o.name = "submit" /\ o.isArray
\* the step is a call that mutates the store and notifies
IsMutation(o) == IsAdd(o) \/ o.name = "moveProject"

\* C1: a submission that passes validation, hence one call of addProject, adds
\* exactly one project to the store: the collection grows by one at its end, the
\* new project is Active and carries the entered values, and every registered
\* listener is called exactly once, with an array that holds the new project.
C1_AddProjectAddsOne ==
  [][IsAdd(op') =>
       LET new == projects'[Len(projects')]
       IN /\ Len(projects') = Len(projects) + 1
          /\ SubSeq(projects', 1, Len(projects)) = projects
          /\ new \notin Range(projects)
          /\ objs'[new].status = Active
          /\ \A i \in 1..Len(listeners') :
               /\ Len(delivered'[i]) = 1
               /\ new \in Range(delivered'[i][1])]_vars

\* C1 witness: a project has been added to a store that already held one, with two
\* listeners registered and called.
C1_Witness ==
  /\ IsAdd(op)
  /\ Len(projects) = 2
  /\ Len(listeners) = 2
  /\ \A i \in 1..2 : Len(delivered[i]) = 1

Blank(s) == \A i \in 1..Len(s) : s[i] = " "

\* the people fields of Peoples that are empty, not numeric, below 1 or above 5
InvalidPeoples == {<<>>, <<" ">>, <<"x">>, <<"0">>, <<"-", "1">>, <<"6">>}

\* an invalid form: the title is empty or blank, the description is blank or
\* shorter than 5 characters, or the people field is one of InvalidPeoples
InvalidForm(in) ==
  \/ Blank(in[1])
  \/ Blank(in[2]) \/ Len(in[2]) < 5
  \/ in[3] \in InvalidPeoples

\* C2: a submission of an invalid form never calls addProject: the store's
\* collection and its records are unchanged and no listener is called.
C2_InvalidNeverAdds ==
  [][(op'.name = "submit" /\ InvalidForm(op'.entered)) =>
       /\ ~op'.isArray
       /\ projects' = projects
       /\ objs' = objs
       /\ \A i \in 1..Len(listeners') : delivered'[i] = <<>>]_vars

\* C2 witness: an invalid form (description of length 3, the rest valid) was
\* submitted to a store that holds a project.
C2_Witness ==
  /\ op.name = "submit"
  /\ op.entered = <<<<" ", "b">>, <<"a", "b", "c">>, <<"1">>>>
  /\ Len(projects) >= 1
  /\ alerts = 1

\* the lists of a type among the listeners
ListsOf(type) == {i \in 1..Len(listeners) : listeners[i] = type}

\* reference r is the first project of the collection with its id
FirstWithItsId(r) ==
  \E k \in 1..Len(projects) :
    /\ projects[k] = r
    /\ \A j \in 1..(k - 1) : objs[projects[j]].id # objs[r].id

\* after the step, r is in the view of every finished list and of no active list,
\* and the collection has the size it had
MovedToFinished(r) ==
  /\ \A i \in ListsOf("active") : r \notin Range(assignedProjects'[i])
  /\ \A i \in ListsOf("finished") : r \in Range(assignedProjects'[i])
  /\ Len(projects') = Len(projects)

\* C3 as stated: for every Active project p of the store, moveProject(p.id, Finished)
\* moves p from the active view to the finished view and keeps the count.
C3_Original ==
  [][\A r \in Range(projects) :
       (objs[r].status = Active /\ op'.name = "moveProject"
        /\ op'.projectId = objs[r].id /\ op'.newStatus = Finished)
       => MovedToFinished(r)]_vars

\* C3 amended: for every Active project p of the store that is the first project in
\* insertion order with its id, moveProject(p.id, Finished) moves p from the active
\* view to the finished view and keeps the count.
C3_MoveToFinished ==
  [][\A r \in Range(projects) :
       (objs[r].status = Active /\ FirstWithItsId(r) /\ op'.name = "moveProject"
        /\ op'.projectId = objs[r].id /\ op'.newStatus = Finished)
       => MovedToFinished(r)]_vars

\* C3 witness: a project was moved to Finished with an active and a finished list
\* registered; the finished list shows it and the active list shows the other one.
C3_Witness ==
  /\ op.name = "moveProject" /\ op.newStatus = Finished /\ op.changed
  /\ Len(projects) = 2
  /\ listeners = <<"active", "finished">>
  /\ Len(assignedProjects[1]) = 1
  /\ Len(assignedProjects[2]) = 1
  /\ objs[assignedProjects[2][1]].id = op.projectId

\* moveProject(projectId, newStatus) finds no project, or finds one that has newStatus
NothingToChange(projectId, newStatus) ==
  LET hits == {k \in 1..Len(projects) : objs[projects[k]].id = projectId}
  IN \/ hits = {}
     \/ objs[projects[CHOOSE k \in hits : \A j \in hits : k <= j]].status = newStatus

\* C4: a moveProject call with nothing to change leaves the collection as it was
\* (same projects, same order, same records) and calls every listener exactly once.
C4_NoOpMoveNotifies ==
  [][(op'.name = "moveProject" /\ NothingToChange(op'.projectId, op'.newStatus)) =>
       /\ projects' = projects
       /\ objs' = objs
       /\ \A i \in 1..Len(listeners') : Len(delivered'[i]) = 1]_vars

\* C4 witness: moveProject was called with an id of no project, on a store with
\* projects and two listeners, and both were called.
C4_Witness ==
  /\ op.name = "moveProject" /\ op.projectId = "0.9" /\ ~op.changed
  /\ Len(projects) >= 1
  /\ Len(listeners) = 2
  /\ \A i \in 1..2 : Len(delivered[i]) = 1

\* C5: whatever a listener does to the array it is called with, the store's
\* collection is what the operation alone makes it (unchanged by moveProject, one
\* reference appended by addProject), and every array delivered, to this listener
\* and to the others, in this and in later notifications, is the collection.
C5_SnapshotIsACopy ==
  [][/\ (op'.name = "moveProject" => projects' = projects)
     /\ (IsAdd(op') => projects' = Append(projects, Len(objs) + 1))
     /\ \A i \in 1..Len(listeners') : \A k \in 1..Len(delivered'[i]) :
          /\ delivered'[i][k] = projects'
          /\ ForeignRef \notin Range(delivered'[i][k])]_vars

\* C5 witness: a listener that changes its array was called before another listener,
\* on a store that holds projects.
C5_Witness ==
  /\ IsMutation(op)
  /\ Len(projects) = 2
  /\ Len(listeners) = 2
  /\ listeners[1] \in ArrayKinds
  /\ \A i \in 1..2 : Len(delivered[i]) = 1

\* C6 as stated: the id of a project of the store never changes, and the status of
\* a project changes only in a moveProject call, to the status the call was given,
\* for the project the call's id finds.
C6_RecordsChangeOnlyByMove ==
  [][\A r \in 1..Len(objs) :
       /\ objs'[r].id = objs[r].id
       /\ objs'[r].status # objs[r].status =>
            /\ op'.name = "moveProject"
            /\ op'.projectId = objs[r].id
            /\ objs'[r].status = op'.newStatus
            /\ FirstWithItsId(r)]_vars

\* C7: addListener calls no listener and changes neither the collection nor a
\* view, whatever the store holds; every addProject and every moveProject calls
\* every listener registered by then exactly once; no other operation calls a
\* listener; and a registered listener stays registered, at its place.
C7_NoReplayThenEveryMutation ==
  [][/\ SubSeq(listeners', 1, Len(listeners)) = listeners
     /\ op'.name = "addListener" =>
          /\ Len(listeners') = Len(listeners) + 1
          /\ \A i \in 1..Len(listeners') : delivered'[i] = <<>>
          /\ assignedProjects' = Append(assignedProjects, <<>>)
          /\ projects' = projects /\ objs' = objs
     /\ op'.name # "addListener" => listeners' = listeners
     /\ IsMutation(op') => \A i \in 1..Len(listeners') : Len(delivered'[i]) = 1
     /\ ~IsMutation(op') => \A i \in 1..Len(listeners') : delivered'[i] = <<>>]_vars

\* C7 witness: a second listener was registered on a store that holds two
\* projects, and has not been called.
C7_Witness ==
  /\ op.name = "addListener"
  /\ Len(projects) = 2
  /\ Len(listeners) = 2
  /\ delivered[2] = <<>>

\* C8: the collection is append-only: in every step the old collection is a prefix
\* of the new one, so no project is removed, the count never decreases and the
\* projects keep their insertion order.
C8_AppendOnly ==
  [][/\ Len(projects') >= Len(projects)
     /\ SubSeq(projects', 1, Len(projects)) = projects
     /\ Len(objs') >= Len(objs)
     /\ Range(projects') \subseteq 1..Len(objs')]_vars

\* C8 witness: a moveProject call changed a project of a store of two projects.
C8_Witness ==
  /\ op.name = "moveProject" /\ op.changed
  /\ projects = <<1, 2>>

\* moving project r to the other status and back: the first call gives r the other
\* status and keeps the collection's order, the second restores collection and records
RoundTrip(r) ==
  LET id == objs[r].id
      s0 == objs[r].status
      st1 == moveProject(Current, id, OtherStatus(s0))
      st2 == moveProject(st1, id, s0)
  IN /\ st1.objs[r].status = OtherStatus(s0)
     /\ st1.arrays[StoreArray] = projects
     /\ st2.arrays[StoreArray] = projects
     /\ st2.objs = objs

\* C9 as stated: for every project of the store, moveProject sets the other status
\* (Finished from Active, Active from Finished), and moving there and back restores
\* the collection.
C9_Original == \A r \in Range(projects) : RoundTrip(r)

\* C9 amended: the same, for every project that is the first in insertion order
\* with its id.
C9_RoundTrip == \A r \in Range(projects) : FirstWithItsId(r) => RoundTrip(r)

\* C9 witness: a project was moved back to Active by a call that changed it (so it
\* had been moved to Finished before), in a store of two projects, one of each status.
C9_Witness ==
  /\ op.name = "moveProject" /\ op.newStatus = Active /\ op.changed
  /\ Len(projects) = 2
  /\ \E r \in Range(projects) : objs[r].status = Finished
  /\ \E r \in Range(projects) :
       FirstWithItsId(r) /\ objs[r].id = op.projectId /\ objs[r].status = Active

\* what the claim says validate returns: every constraint that applies holds
ConstraintsHold(v) ==
  LET isString == v.value.type = "string"
      isNumber == v.value.type = "number"
  IN /\ (Has(v, "required") /\ v.required) => ~(isString /\ Blank(v.value.str))
     /\ (Has(v, "minLength") /\ isString) => Len(v.value.str) >= v.minLength
     /\ (Has(v, "maxLength") /\ isString) => Len(v.value.str) <= v.maxLength
     /\ (Has(v, "min") /\ isNumber) => (~v.value.nan /\ v.value.tenths >= 10 * v.min)
     /\ (Has(v, "max") /\ isNumber) => (~v.value.nan /\ v.value.tenths <= 10 * v.max)

\* C10: validate returns true exactly when every applicable constraint holds:
\* required fails on an empty or blank string, the length constraints count only for
\* strings, the range constraints only for numbers, and an absent constraint or one
\* of the other type never makes the result false.
C10_ValidateExact == isValid = ConstraintsHold(validatable)

\* C10 witness: validate returned true for a number with a minLength no digit string
\* of it reaches, with required set and the range constraints present.
C10_Witness ==
  /\ op.name = "validate"
  /\ validatable = Validatable(Num(50), {TRUE}, {2}, {}, {1}, {5})
  /\ isValid

\* one of the three validations of the form fails on the entered values
AnyValidationFails(in) ==
  \/ ~validate([value |-> Str(in[1]), required |-> TRUE])
  \/ ~validate([value |-> Str(in[2]), required |-> TRUE, minLength |-> 5])
  \/ ~validate([value |-> ToNumber(in[3]), required |-> TRUE, min |-> 1, max |-> 5])

\* C11: a submission on which a validation fails shows one alert, adds nothing and
\* leaves the three fields with the entered values; a submission on which all three
\* pass shows no alert, calls addProject once with the entered title and description
\* and the number the people field converts to, and leaves the three fields empty.
C11_AlertOrAddAndClear ==
  [][op'.name = "submit" =>
       LET in == op'.entered
       IN IF AnyValidationFails(in)
            THEN /\ alerts' = 1
                 /\ titleInputElement' = in[1]
                 /\ descriptionInputElement' = in[2]
                 /\ peopleInputElement' = in[3]
                 /\ projects' = projects /\ objs' = objs
            ELSE /\ alerts' = 0
                 /\ Len(projects') = Len(projects) + 1
                 /\ Len(objs') = Len(objs) + 1
                 /\ objs'[projects'[Len(projects')]].title = in[1]
                 /\ objs'[projects'[Len(projects')]].description = in[2]
                 /\ objs'[projects'[Len(projects')]].people = ToNumber(in[3])
                 /\ \A i \in 1..Len(listeners') : Len(delivered'[i]) = 1
                 /\ titleInputElement' = <<>>
                 /\ descriptionInputElement' = <<>>
                 /\ peopleInputElement' = <<>>]_vars

\* C11 witness: after a project was added, a form with a non-numeric people field
\* was submitted: one alert, and the fields still hold what was entered.
C11_Witness ==
  /\ op.name = "submit" /\ ~op.isArray
  /\ op.entered = <<<<" ", "b">>, <<"a", "b", "c", "d", "e">>, <<"x">>>>
  /\ peopleInputElement = <<"x">>
  /\ alerts = 1
  /\ Len(projects) = 1

\* x is an integer between 1 and 5
IntegerOneToFive(x) ==
  x.type = "number" /\ ~x.nan /\ x.tenths % 10 = 0 /\ x.tenths >= 10 /\ x.tenths <= 50

\* C12 as stated: every project that reached the store through the form has an
\* integer peopleCount between 1 and 5.
C12_PeopleIsInteger ==
  \A r \in Range(projects) : IntegerOneToFive(objs[r].people)

\* C17: a moveProject call keeps the collection (same references, same order), the
\* records' count and the listeners; a record that differs afterwards is the first
\* project in insertion order with the given id, and it differs in its status only,
\* which is then the given status.
C17_MoveChangesOneStatus ==
  [][op'.name = "moveProject" =>
       /\ projects' = projects
       /\ listeners' = listeners
       /\ DOMAIN objs' = DOMAIN objs
       /\ \A r \in DOMAIN objs :
            objs'[r] # objs[r] =>
              /\ r \in Range(projects) /\ FirstWithItsId(r)
              /\ objs[r].id = op'.projectId
              /\ objs'[r] = [objs[r] EXCEPT !.status = op'.newStatus]]_vars

\* C17 witness: of two projects with different ids the second was moved to Finished
\* and the first is still Active.
C17_Witness ==
  /\ op.name = "moveProject" /\ op.changed /\ op.newStatus = Finished
  /\ Len(projects) = 2
  /\ objs[projects[1]].id # objs[projects[2]].id
  /\ objs[projects[2]].id = op.projectId
  /\ objs[projects[2]].status = Finished
  /\ objs[projects[1]].status = Active
  /\ Len(listeners) = 2

\* C18: a project that is not the first of the collection with its id keeps its
\* status in every step, and a moveProject call with an id two projects share gives
\* the first of them the requested status.
C18_OnlyTheEarlierMoves ==
  [][/\ \A r \in Range(projects) :
          ~FirstWithItsId(r) => objs'[r].status = objs[r].status
     /\ \A r \in Range(projects) :
          (op'.name = "moveProject" /\ FirstWithItsId(r) /\ objs[r].id = op'.projectId
           /\ \E q \in Range(projects) : q # r /\ objs[q].id = objs[r].id)
          => objs'[r].status = op'.newStatus]_vars

\* C18 witness: two projects share an id, moveProject was called with it, and the
\* earlier one is Finished while the later one is still Active.
C18_Witness ==
  /\ op.name = "moveProject" /\ op.changed
  /\ Len(projects) = 2
  /\ objs[projects[1]].id = objs[projects[2]].id
  /\ op.projectId = objs[projects[1]].id
  /\ objs[projects[1]].status = Finished
  /\ objs[projects[2]].status = Active

\* the number of positions of sequence s that hold x
Occurrences(s, x) == Cardinality({k \in 1..Len(s) : s[k] = x})

\* the view of the list of a status, with the active list subscribed first
ViewOf(status) == assignedProjects[IF status = Active THEN 1 ELSE 2]

\* C16: with the active and the finished list subscribed from the start, every
\* project of the store is once in the view matching its status and not in the other
\* view, and the views hold nothing but projects of the store.
C16_ViewsPartitionStore ==
  /\ \A r \in Range(projects) :
       /\ Occurrences(ViewOf(objs[r].status), r) = 1
       /\ Occurrences(ViewOf(OtherStatus(objs[r].status)), r) = 0
  /\ \A i \in 1..Len(listeners) : Range(assignedProjects[i]) \subseteq Range(projects)

\* C16 witness: after a move, the store holds an Active and a Finished project and
\* each of the two views holds one of them.
C16_Witness ==
  /\ listeners = <<"active", "finished">>
  /\ op.name = "moveProject" /\ op.changed
  /\ Len(projects) = 2
  /\ Len(assignedProjects[1]) = 1 /\ objs[assignedProjects[1][1]].status = Active
  /\ Len(assignedProjects[2]) = 1 /\ objs[assignedProjects[2][1]].status = Finished

\* the subsequence of snapshot whose records, in heap, have the status of list type
Matching(type, snapshot, heap) == SelectSeq(snapshot, LAMBDA r : Relevant(type, heap[r]))

\* C13: after a mutation has notified the lists, each list's assignedProjects is the
\* subsequence, in order, of the snapshot it received whose status is the list's
\* type, and the <ul> it renders into holds one item per project of that
\* subsequence, in that order, and nothing else.
C13_FilteredAndRendered ==
  [][IsMutation(op') =>
       \A i \in 1..Len(listeners) :
         /\ Len(delivered'[i]) = 1
         /\ assignedProjects'[i] = Matching(listeners[i], delivered'[i][1], objs')
         /\ listItems'[getElementById(listeners[i])] = assignedProjects'[i]]_vars

\* C13 witness: the active list had rendered two projects; after one of them was moved
\* it renders the other one alone, and the finished list renders the moved one.
C13_Witness ==
  /\ listeners = <<"active", "finished">>
  /\ op.name = "moveProject" /\ op.changed /\ op.newStatus = Finished
  /\ Len(projects) = 2
  /\ objs[projects[1]].status = Finished
  /\ listItems = <<<<projects[2]>>, <<projects[1]>>>>

\* C14: an addProject or moveProject call has, when it returns, called every listener
\* registered when it began, once each and in registration order, each with the
\* collection as the mutation left it (same references in the same order, records
\* with the new status); an operation that is not one of these calls no listener.
C14_AllNotifiedInOrder ==
  [][/\ IsMutation(op') =>
          /\ listeners' = listeners
          /\ Len(calls') = Len(listeners)
          /\ \A k \in 1..Len(calls') :
               /\ calls'[k].listener = k
               /\ calls'[k].items = projects'
               /\ calls'[k].objs = objs'
     /\ ~IsMutation(op') => calls' = <<>>]_vars

\* C14 witness: with a subscriber that reverses its array registered before the active
\* list, a move that changed a status called both, the list second, and both got the
\* two projects of the store.
C14_Witness ==
  /\ listeners = <<"reverse", "active">>
  /\ op.name = "moveProject" /\ op.changed
  /\ Len(projects) = 2
  /\ Len(calls) = 2
  /\ calls[2].listener = 2 /\ calls[2].items = projects
  /\ calls[1].objs[projects[1]].status = op.newStatus

\* some registered subscriber calls the store back when it is notified
SomeReentrant == \E i \in 1..Len(listeners) : listeners[i] \in ReentrantKinds

\* C15: nothing stops a subscriber from re-entering the store. When a loop calls a
\* subscriber that calls addProject or moveProject, a new loop starts on top of the
\* loops in progress, which stay where they are; no loop ever moves past such a
\* subscriber, so the mutation that started the first loop does not finish
\* notifying; and updateListeners returns only when no such subscriber is registered.
C15_ReentrantRoundsNeverReturn ==
  [][/\ (op'.name = "notify" /\ listeners[op'.listener] \in ReentrantKinds)
          => stack' = Append(stack, [next |-> 1])
     /\ \A k \in 1..Len(stack') :
          \A j \in 1..(stack'[k].next - 1) : j <= Len(listeners) => listeners[j] \notin ReentrantKinds
     /\ op'.name = "return" => ~SomeReentrant]_vars

\* C15 witness: with a subscriber that calls moveProject registered before the active
\* list, one addProject has three loops in progress, every one at the subscriber, and
\* the list has not been told about the project.
C15_Witness ==
  /\ listeners = <<"moveOnNotify", "active">>
  /\ Len(stack) = 3
  /\ \A k \in 1..3 : stack[k].next = 1
  /\ Len(projects) = 1
  /\ assignedProjects[2] = <<>>

====
